---- MODULE Spec2Model ----
(***************************************************************************)
(* chewie-crypto-gcp: Cloud KMS signing with automatic algorithm discovery *)
(* (src/src/kms.rs) and Secret Manager secret retrieval                    *)
(* (src/src/secretmanager.rs).                                              *)
(*                                                                         *)
(* The remote services are collaborators: every response they give is an   *)
(* input drawn from a small set.  An async fn is split at its single       *)
(* .await: one action dispatches the request, one action handles the       *)
(* response and runs the rest of the function.  The backend keeps no state *)
(* in the model: each metadata response may name any algorithm, so what it *)
(* reports for a resource may differ from one fetch to the next.           *)
(* decode stands for the StringEncoding of chewie_crypto, the encoding of  *)
(* the usage example in secretmanager.rs.                                  *)
(***************************************************************************)
EXTENDS Naturals, Sequences, FiniteSets

VARIABLES newCall, cloned, calls, metaFetches, lookups, signRequests,
          secretCalls, secretFetches, decodes

vars == <<newCall, cloned, calls, metaFetches, lookups, signRequests,
          secretCalls, secretFetches, decodes>>

kmsVars == <<newCall, cloned, calls, metaFetches, lookups, signRequests>>

secretVars == <<secretCalls, secretFetches, decodes>>

----------------------------------------------------------------------------
(* Bounds *)

\* number of sign() calls made on the key and its clone
MaxCalls == 2

\* number of get_secret() calls made on the secret source
MaxSecretCalls == 2

\* longest secret payload, in bytes
MaxLen == 2

----------------------------------------------------------------------------
(* Values *)

None == [tag |-> "None"]

Some(v) == [tag |-> "Some", value |-> v]

Ok(v) == [tag |-> "Ok", value |-> v]

Err(e) == [tag |-> "Err", error |-> e]

\* no response received yet / no value returned yet
Nothing == [tag |-> "Nothing"]

\* google_cloud_kms_v1::Error / google_cloud_secretmanager_v1::Error values
ServiceErrors == {"Unavailable", "PermissionDenied"}

\* resource names handed to AsymmetricJwsKey::new
ResourceNames ==
    {"projects/test/locations/us/keyRings/ring/cryptoKeys/key/cryptoKeyVersions/1",
     "projects/test/locations/us/keyRings/ring/cryptoKeys/key/cryptoKeyVersions/2"}

\* the signing algorithms get_algorithm_info imports by name
SigningAlgorithms ==
    {"EcSignEd25519", "EcSignP256Sha256", "EcSignP384Sha384",
     "RsaSignPkcs12048Sha256", "RsaSignPkcs13072Sha256", "RsaSignPkcs14096Sha256",
     "RsaSignPkcs14096Sha512", "RsaSignPss2048Sha256", "RsaSignPss3072Sha256",
     "RsaSignPss4096Sha256", "RsaSignPss4096Sha512"}

\* members of the remote enumeration that no arm of the match names
OtherAlgorithms ==
    {"KemXwing", "GoogleSymmetricEncryption", "HmacSha256",
     "CryptoKeyVersionAlgorithmUnspecified"}

CryptoKeyVersionAlgorithm == SigningAlgorithms \cup OtherAlgorithms

AlgorithmInfo(a, j) == [algorithm |-> a, jwt_alg |-> j]

\* inputs handed to sign(): the empty input and b"data"
SignInputs == {<< >>, <<100, 97, 116, 97>>}

\* signatures the collaborator returns: empty and b"signed data"
Signatures == {<< >>, <<115, 105, 103, 110, 101, 100, 32, 100, 97, 116, 97>>}

----------------------------------------------------------------------------
(* get_algorithm_info: the catalog *)

\* the arms of the match, in source order; the wildcard arm follows them
MatchArmsCollapsed ==
    << [pattern |-> {"RsaSignPss2048Sha256", "RsaSignPss3072Sha256"},
        value   |-> AlgorithmInfo("RSA-PSS-SHA256", "PS256")],
       [pattern |-> {"RsaSignPss4096Sha256", "RsaSignPss4096Sha512"},
        value   |-> AlgorithmInfo("RSA-PSS-SHA512", "PS512")],
       [pattern |-> {"RsaSignPkcs12048Sha256", "RsaSignPkcs13072Sha256",
                     "RsaSignPkcs14096Sha256"},
        value   |-> AlgorithmInfo("RSA-PKCS1-SHA256", "RS256")],
       [pattern |-> {"RsaSignPkcs14096Sha512"},
        value   |-> AlgorithmInfo("RSA-PKCS1-SHA512", "RS512")],
       [pattern |-> {"EcSignP256Sha256"},
        value   |-> AlgorithmInfo("ECDSA-P256", "ES256")],
       [pattern |-> {"EcSignP384Sha384"},
        value   |-> AlgorithmInfo("ECDSA-P384", "ES384")],
       [pattern |-> {"EcSignEd25519"},
        value   |-> AlgorithmInfo("EdDSA-Ed25519", "Ed25519")] >>

MatchArms ==
    << [pattern |-> {"RsaSignPss2048Sha256", "RsaSignPss3072Sha256",
                     "RsaSignPss4096Sha256"},
        value   |-> AlgorithmInfo("RSA-PSS-SHA256", "PS256")],
       [pattern |-> {"RsaSignPss4096Sha512"},
        value   |-> AlgorithmInfo("RSA-PSS-SHA512", "PS512")],
       [pattern |-> {"RsaSignPkcs12048Sha256", "RsaSignPkcs13072Sha256",
                     "RsaSignPkcs14096Sha256"},
        value   |-> AlgorithmInfo("RSA-PKCS1-SHA256", "RS256")],
       [pattern |-> {"RsaSignPkcs14096Sha512"},
        value   |-> AlgorithmInfo("RSA-PKCS1-SHA512", "RS512")],
       [pattern |-> {"EcSignP256Sha256"},
        value   |-> AlgorithmInfo("ECDSA-P256", "ES256")],
       [pattern |-> {"EcSignP384Sha384"},
        value   |-> AlgorithmInfo("ECDSA-P384", "ES384")],
       [pattern |-> {"EcSignEd25519"},
        value   |-> AlgorithmInfo("EdDSA-Ed25519", "Ed25519")] >>

\* the position of the trailing `_ => None` arm
WildcardArm == Len(MatchArms) + 1

\* the first arm whose pattern matches
matched_arm(algorithm) ==
    IF \E i \in 1..Len(MatchArms) : algorithm \in MatchArms[i].pattern
    THEN CHOOSE i \in 1..Len(MatchArms) :
            /\ algorithm \in MatchArms[i].pattern
            /\ \A j \in 1..(i - 1) : algorithm \notin MatchArms[j].pattern
    ELSE WildcardArm

get_algorithm_info(algorithm) ==
    IF matched_arm(algorithm) = WildcardArm
    THEN None
    ELSE Some(MatchArms[matched_arm(algorithm)].value)

----------------------------------------------------------------------------
(* AsymmetricJwsKey *)

\* the struct; the client handle names the one collaborator and is left out
AsymmetricJwsKey(resource_name, algorithm_info) ==
    [resource_name |-> resource_name, algorithm_info |-> algorithm_info]

\* SetupError
GetCryptoKey(source) == [kind |-> "GetCryptoKey", source |-> source]

UnsupportedAlgorithm(a) == [kind |-> "UnsupportedAlgorithm", algorithm |-> a]

\* SigningError
AsymmetricSign(source) == [kind |-> "AsymmetricSign", source |-> source]

\* what get_crypto_key_version can answer
MetadataResponses ==
    {Ok([algorithm |-> a]) : a \in CryptoKeyVersionAlgorithm}
        \cup {Err(e) : e \in ServiceErrors}

\* what asymmetric_sign can answer
SignResponses ==
    {Ok([signature |-> s]) : s \in Signatures} \cup {Err(e) : e \in ServiceErrors}

\* get_algorithm_info_for_resource: the request it sends
get_crypto_key_version_request(resource_name) == [name |-> resource_name]

\* a variant that falls back to a default descriptor for an unknown algorithm
get_algorithm_info_for_resource_fallback(response) ==
    IF response.tag = "Err"
    THEN [result |-> Err(GetCryptoKey(response.error)), lookups |-> 0]
    ELSE LET found == get_algorithm_info(response.value.algorithm)
         IN  [result  |-> IF found.tag = "None"
                          THEN Ok(AlgorithmInfo("RSA-PKCS1-SHA256", "RS256"))
                          ELSE Ok(found.value),
              lookups |-> 1]

\* a variant that resolves a failed fetch to an empty descriptor
get_algorithm_info_for_resource_default(response) ==
    IF response.tag = "Err"
    THEN [result |-> Ok(AlgorithmInfo("", "")), lookups |-> 0]
    ELSE LET found == get_algorithm_info(response.value.algorithm)
         IN  [result  |-> IF found.tag = "None"
                          THEN Err(UnsupportedAlgorithm(response.value.algorithm))
                          ELSE Ok(found.value),
              lookups |-> 1]

\* get_algorithm_info_for_resource after its .await: the result, and how many
\* times it ran the catalog lookup
get_algorithm_info_for_resource(response) ==
    IF response.tag = "Err"
    THEN [result |-> Err(GetCryptoKey(response.error)), lookups |-> 0]
    ELSE LET found == get_algorithm_info(response.value.algorithm)
         IN  [result  |-> IF found.tag = "None"
                          THEN Err(UnsupportedAlgorithm(response.value.algorithm))
                          ELSE Ok(found.value),
              lookups |-> 1]

\* AsymmetricJwsKey::new after the `?`
new_result(resource_name, resolved) ==
    IF resolved.tag = "Err"
    THEN resolved
    ELSE Ok(AsymmetricJwsKey(resource_name, resolved.value))

\* Signer::algorithm
algorithm(key) == key.algorithm_info.algorithm

\* Signer::sign: the request it sends
asymmetric_sign_request(key, input) == [name |-> key.resource_name, data |-> input]

\* a variant that base64-pads the signature to a multiple of four bytes
sign_result_padded(response) ==
    IF response.tag = "Err"
    THEN Err(AsymmetricSign(response.error))
    ELSE Ok(IF Len(response.value.signature) % 4 = 0
            THEN response.value.signature
            ELSE response.value.signature \o <<61>>)

\* Signer::sign after its .await
sign_result(response) ==
    IF response.tag = "Err"
    THEN Err(AsymmetricSign(response.error))
    ELSE Ok(response.value.signature)

----------------------------------------------------------------------------
(* State *)

CallIds == 1..MaxCalls

\* the two key objects of the model: the constructed key and its Clone
KeyIds == {"key", "clone"}

IdleNew ==
    [pc |-> "idle", resource_name |-> "", request |-> Nothing,
     response |-> Nothing, result |-> Nothing]

IdleCall ==
    [pc |-> "idle", self |-> "", input |-> << >>, request |-> Nothing,
     response |-> Nothing, result |-> Nothing]

KeyExists(k) ==
    IF k = "key"
    THEN newCall.pc = "done" /\ newCall.result.tag = "Ok"
    ELSE cloned.tag = "Some"

KeyOf(k) == IF k = "key" THEN newCall.result.value ELSE cloned.value

Started == {c \in CallIds : calls[c].pc # "idle"}

----------------------------------------------------------------------------
(* Actions of the KMS key *)

\* AsymmetricJwsKey::new up to its .await: the metadata request is dispatched
NewStart(resource_name) ==
    /\ newCall.pc = "idle"
    /\ newCall' = [IdleNew EXCEPT !.pc = "fetching",
                                  !.resource_name = resource_name,
                                  !.request = get_crypto_key_version_request(resource_name)]
    /\ metaFetches' = metaFetches + 1
    /\ UNCHANGED <<cloned, calls, lookups, signRequests, secretVars>>

\* AsymmetricJwsKey::new from the response on: lookup, then the key or the error
NewComplete(response) ==
    /\ newCall.pc = "fetching"
    /\ LET resolved == get_algorithm_info_for_resource(response)
       IN  /\ newCall' = [newCall EXCEPT
                            !.pc = "done",
                            !.response = response,
                            !.result = new_result(newCall.resource_name, resolved.result)]
           /\ lookups' = lookups + resolved.lookups
    /\ UNCHANGED <<cloned, calls, metaFetches, signRequests, secretVars>>

\* #[derive(Clone)] on AsymmetricJwsKey
Clone ==
    /\ KeyExists("key")
    /\ cloned = None
    /\ cloned' = Some(KeyOf("key"))
    /\ UNCHANGED <<newCall, calls, metaFetches, lookups, signRequests, secretVars>>

\* a variant that sends nothing when an identical request is already in flight
SignStartDeduplicating(c, k, input) ==
    /\ calls[c].pc = "idle"
    /\ \A d \in 1..(c - 1) : calls[d].pc # "idle"
    /\ KeyExists(k)
    /\ calls' = [calls EXCEPT ![c] =
                    [IdleCall EXCEPT !.pc = "pending", !.self = k, !.input = input,
                                     !.request = asymmetric_sign_request(KeyOf(k), input)]]
    /\ signRequests' =
          IF \E d \in CallIds :
                /\ calls[d].pc = "pending"
                /\ calls[d].request = asymmetric_sign_request(KeyOf(k), input)
          THEN signRequests
          ELSE signRequests + 1
    /\ UNCHANGED <<newCall, cloned, metaFetches, lookups, secretVars>>

\* sign up to its .await: call c, the next one made, dispatches its request
SignStart(c, k, input) ==
    /\ calls[c].pc = "idle"
    /\ \A d \in 1..(c - 1) : calls[d].pc # "idle"
    /\ KeyExists(k)
    /\ calls' = [calls EXCEPT ![c] =
                    [IdleCall EXCEPT !.pc = "pending", !.self = k, !.input = input,
                                     !.request = asymmetric_sign_request(KeyOf(k), input)]]
    /\ signRequests' = signRequests + 1
    /\ UNCHANGED <<newCall, cloned, metaFetches, lookups, secretVars>>

\* a variant that resolves the algorithm again when signing fails
SignCompleteReresolving(c, response) ==
    /\ calls[c].pc = "pending"
    /\ calls' = [calls EXCEPT ![c] = [@ EXCEPT !.pc = "done",
                                                !.response = response,
                                                !.result = sign_result(response)]]
    /\ IF response.tag = "Err"
       THEN \E a \in CryptoKeyVersionAlgorithm :
               LET resolved == get_algorithm_info_for_resource(Ok([algorithm |-> a]))
                   fresh == IF resolved.result.tag = "Ok"
                            THEN resolved.result.value
                            ELSE KeyOf(calls[c].self).algorithm_info
               IN  /\ metaFetches' = metaFetches + 1
                   /\ lookups' = lookups + resolved.lookups
                   /\ IF calls[c].self = "key"
                      THEN /\ newCall' = [newCall EXCEPT
                                            !.result.value.algorithm_info = fresh]
                           /\ cloned' = cloned
                      ELSE /\ cloned' = [cloned EXCEPT !.value.algorithm_info = fresh]
                           /\ newCall' = newCall
       ELSE UNCHANGED <<newCall, cloned, metaFetches, lookups>>
    /\ UNCHANGED <<signRequests, secretVars>>

\* sign from the response on
SignComplete(c, response) ==
    /\ calls[c].pc = "pending"
    /\ calls' = [calls EXCEPT ![c] = [@ EXCEPT !.pc = "done",
                                                !.response = response,
                                                !.result = sign_result(response)]]
    /\ UNCHANGED <<newCall, cloned, metaFetches, lookups, signRequests, secretVars>>

\* the caller drops the future of an in-flight sign
SignCancel(c) ==
    /\ calls[c].pc = "pending"
    /\ calls' = [calls EXCEPT ![c] = [@ EXCEPT !.pc = "cancelled"]]
    /\ UNCHANGED <<newCall, cloned, metaFetches, lookups, signRequests, secretVars>>

----------------------------------------------------------------------------
(* SecretManagerSource *)

\* the source built in the usage example: resource name and StringEncoding
SecretManagerSource ==
    [resource_name |-> "projects/boogawooga/secrets/my-private-secret/versions/1",
     encoding      |-> "StringEncoding"]

\* SecretSourceError
AccessSecret(source) == [kind |-> "AccessSecret", source |-> source]

MissingPayload == [kind |-> "MissingPayload"]

Decode(source) == [kind |-> "Decode", source |-> source]

\* bytes of secret payloads: 'a', and the two bytes of U+00E9
PayloadBytes == {97, 195, 169}

\* byte strings of length 0..n
RECURSIVE BytesUpTo(_)
BytesUpTo(n) ==
    IF n = 0
    THEN {<< >>}
    ELSE BytesUpTo(n - 1)
            \cup {Append(b, x) : b \in {y \in BytesUpTo(n - 1) : Len(y) = n - 1},
                                 x \in PayloadBytes}

Payloads == BytesUpTo(MaxLen)

\* what access_secret_version can answer
SecretResponses ==
    {Ok([payload |-> Some([data |-> d])]) : d \in Payloads}
        \cup {Ok([payload |-> None])}
        \cup {Err(e) : e \in ServiceErrors}

\* UTF-8: the length of the sequence a lead byte opens, 0 for no lead byte
Utf8Width(b) ==
    IF b < 128 THEN 1
    ELSE IF b >= 194 /\ b <= 223 THEN 2
    ELSE IF b >= 224 /\ b <= 239 THEN 3
    ELSE IF b >= 240 /\ b <= 244 THEN 4
    ELSE 0

\* UTF-8: the range of the byte that follows lead byte b
Utf8SecondLow(b) == IF b = 224 THEN 160 ELSE IF b = 240 THEN 144 ELSE 128

Utf8SecondHigh(b) == IF b = 237 THEN 159 ELSE IF b = 244 THEN 143 ELSE 191

Utf8WellFormedAt(bytes, i) ==
    LET w == Utf8Width(bytes[i])
    IN  /\ w > 0
        /\ i + w - 1 <= Len(bytes)
        /\ w >= 2 => /\ bytes[i + 1] >= Utf8SecondLow(bytes[i])
                     /\ bytes[i + 1] <= Utf8SecondHigh(bytes[i])
        /\ \A j \in (i + 2)..(i + w - 1) : bytes[j] >= 128 /\ bytes[j] <= 191

\* the payload bits of the byte at offset k of a sequence of width w
Utf8Bits(b, k, w) ==
    IF k > 0 THEN b % 64
    ELSE IF w = 1 THEN b
    ELSE IF w = 2 THEN b % 32
    ELSE IF w = 3 THEN b % 16
    ELSE b % 8

RECURSIVE Utf8Scalar(_, _, _, _, _)
Utf8Scalar(bytes, i, k, w, acc) ==
    IF k = w
    THEN acc
    ELSE Utf8Scalar(bytes, i, k + 1, w, acc * 64 + Utf8Bits(bytes[i + k], k, w))

\* StringEncoding's decode: the scalar values of the string, or a UTF-8 error
\* that says how many leading bytes were valid
RECURSIVE decode_from(_, _, _)
decode_from(bytes, i, out) ==
    IF i > Len(bytes)
    THEN Ok(out)
    ELSE IF Utf8WellFormedAt(bytes, i)
    THEN decode_from(bytes, i + Utf8Width(bytes[i]),
                     Append(out, Utf8Scalar(bytes, i, 0, Utf8Width(bytes[i]), 0)))
    ELSE Err([kind |-> "Utf8Error", valid_up_to |-> i - 1])

decode(bytes) == decode_from(bytes, 1, << >>)

\* get_secret: the request it sends
access_secret_version_request(source) == [name |-> source.resource_name]

\* a variant that takes a payload without data for a missing payload
get_secret_result_empty_is_missing(response) ==
    IF response.tag = "Err"
    THEN [result |-> Err(AccessSecret(response.error)), decodes |-> 0]
    ELSE IF response.value.payload.tag = "None"
            \/ response.value.payload.value.data = << >>
    THEN [result |-> Err(MissingPayload), decodes |-> 0]
    ELSE LET decoded == decode(response.value.payload.value.data)
         IN  [result  |-> IF decoded.tag = "Err"
                          THEN Err(Decode(decoded.error))
                          ELSE Ok(decoded.value),
              decodes |-> 1]

\* a variant that reports a decode failure as an access failure
get_secret_result_conflating(response) ==
    IF response.tag = "Err"
    THEN [result |-> Err(AccessSecret(response.error)), decodes |-> 0]
    ELSE IF response.value.payload.tag = "None"
    THEN [result |-> Err(MissingPayload), decodes |-> 0]
    ELSE LET decoded == decode(response.value.payload.value.data)
         IN  [result  |-> IF decoded.tag = "Err"
                          THEN Err(AccessSecret(decoded.error))
                          ELSE Ok(decoded.value),
              decodes |-> 1]

\* get_secret after its .await: the result, and how many times it ran decode
get_secret_result(response) ==
    IF response.tag = "Err"
    THEN [result |-> Err(AccessSecret(response.error)), decodes |-> 0]
    ELSE IF response.value.payload.tag = "None"
    THEN [result |-> Err(MissingPayload), decodes |-> 0]
    ELSE LET decoded == decode(response.value.payload.value.data)
         IN  [result  |-> IF decoded.tag = "Err"
                          THEN Err(Decode(decoded.error))
                          ELSE Ok(decoded.value),
              decodes |-> 1]

SecretCallIds == 1..MaxSecretCalls

IdleSecretCall ==
    [pc |-> "idle", request |-> Nothing, response |-> Nothing, result |-> Nothing]

SecretStarted == {c \in SecretCallIds : secretCalls[c].pc # "idle"}

\* a variant that answers from an earlier successful call instead of fetching
GetSecretStartCaching(c) ==
    /\ secretCalls[c].pc = "idle"
    /\ \A d \in 1..(c - 1) : secretCalls[d].pc # "idle"
    /\ IF \E d \in SecretCallIds :
            secretCalls[d].pc = "done" /\ secretCalls[d].result.tag = "Ok"
       THEN \E d \in SecretCallIds :
               /\ secretCalls[d].pc = "done" /\ secretCalls[d].result.tag = "Ok"
               /\ secretCalls' = [secretCalls EXCEPT ![c] =
                                    [IdleSecretCall EXCEPT
                                        !.pc = "done",
                                        !.result = secretCalls[d].result]]
               /\ secretFetches' = secretFetches
       ELSE /\ secretCalls' = [secretCalls EXCEPT ![c] =
                                 [IdleSecretCall EXCEPT
                                     !.pc = "pending",
                                     !.request =
                                         access_secret_version_request(SecretManagerSource)]]
            /\ secretFetches' = secretFetches + 1
    /\ UNCHANGED <<decodes, kmsVars>>

\* get_secret up to its .await: call c, the next one made, dispatches its request
GetSecretStart(c) ==
    /\ secretCalls[c].pc = "idle"
    /\ \A d \in 1..(c - 1) : secretCalls[d].pc # "idle"
    /\ secretCalls' = [secretCalls EXCEPT ![c] =
                         [IdleSecretCall EXCEPT
                             !.pc = "pending",
                             !.request =
                                 access_secret_version_request(SecretManagerSource)]]
    /\ secretFetches' = secretFetches + 1
    /\ UNCHANGED <<decodes, kmsVars>>

\* get_secret from the response on: payload check, then decode
GetSecretComplete(c, response) ==
    /\ secretCalls[c].pc = "pending"
    /\ LET outcome == get_secret_result(response)
       IN  /\ secretCalls' = [secretCalls EXCEPT ![c] =
                                [@ EXCEPT !.pc = "done",
                                          !.response = response,
                                          !.result = outcome.result]]
           /\ decodes' = decodes + outcome.decodes
    /\ UNCHANGED <<secretFetches, kmsVars>>

\* the caller drops the future of an in-flight get_secret
GetSecretCancel(c) ==
    /\ secretCalls[c].pc = "pending"
    /\ secretCalls' = [secretCalls EXCEPT ![c] = [@ EXCEPT !.pc = "cancelled"]]
    /\ UNCHANGED <<secretFetches, decodes, kmsVars>>

----------------------------------------------------------------------------
(* Specifications *)

Init ==
    /\ newCall = IdleNew
    /\ cloned = None
    /\ calls = [c \in CallIds |-> IdleCall]
    /\ metaFetches = 0
    /\ lookups = 0
    /\ signRequests = 0
    /\ secretCalls = [c \in SecretCallIds |-> IdleSecretCall]
    /\ secretFetches = 0
    /\ decodes = 0

\* the KMS key: construction, cloning and signing
Next ==
    \/ \E r \in ResourceNames : NewStart(r)
    \/ \E response \in MetadataResponses : NewComplete(response)
    \/ Clone
    \/ \E c \in CallIds, k \in KeyIds, input \in SignInputs : SignStart(c, k, input)
    \/ \E c \in CallIds, response \in SignResponses : SignComplete(c, response)
    \/ \E c \in CallIds : SignCancel(c)

Spec == Init /\ [][Next]_vars

\* the secret source
NextSecret ==
    \/ \E c \in SecretCallIds : GetSecretStart(c)
    \/ \E c \in SecretCallIds, response \in SecretResponses :
          GetSecretComplete(c, response)
    \/ \E c \in SecretCallIds : GetSecretCancel(c)

SpecSecret == Init /\ [][NextSecret]_vars

----------------------------------------------------------------------------
(* The supported table of the specification, section 4.1 *)

SupportedTable ==
    { [ids  |-> {"RsaSignPss2048Sha256", "RsaSignPss3072Sha256", "RsaSignPss4096Sha256"},
       name |-> "RSA-PSS-SHA256", protocolCode |-> "PS256"],
      [ids  |-> {"RsaSignPss4096Sha512"},
       name |-> "RSA-PSS-SHA512", protocolCode |-> "PS512"],
      [ids  |-> {"RsaSignPkcs12048Sha256", "RsaSignPkcs13072Sha256",
                 "RsaSignPkcs14096Sha256"},
       name |-> "RSA-PKCS1-SHA256", protocolCode |-> "RS256"],
      [ids  |-> {"RsaSignPkcs14096Sha512"},
       name |-> "RSA-PKCS1-SHA512", protocolCode |-> "RS512"],
      [ids  |-> {"EcSignP256Sha256"}, name |-> "ECDSA-P256", protocolCode |-> "ES256"],
      [ids  |-> {"EcSignP384Sha384"}, name |-> "ECDSA-P384", protocolCode |-> "ES384"],
      [ids  |-> {"EcSignEd25519"}, name |-> "EdDSA-Ed25519", protocolCode |-> "Ed25519"] }

TableIds == UNION {row.ids : row \in SupportedTable}

TableDescriptors ==
    {[algorithm |-> row.name, jwt_alg |-> row.protocolCode] : row \in SupportedTable}

\* the construction has ended and the backend reported algorithm a
Reported(a) ==
    /\ newCall.pc = "done"
    /\ newCall.response.tag = "Ok"
    /\ newCall.response.value.algorithm = a

----------------------------------------------------------------------------
(* Claims about the KMS key, checked under Spec *)

\* C1: for every identifier of the supported table the lookup returns the row's
\* (name, protocolCode), key sizes collapsed, and a key (or its clone) constructed
\* against a backend reporting that identifier answers algorithm() with the
\* row's name.
C1_CatalogMatchesTable ==
    \A row \in SupportedTable : \A a \in row.ids :
        /\ get_algorithm_info(a).tag = "Some"
        /\ get_algorithm_info(a).value.algorithm = row.name
        /\ get_algorithm_info(a).value.jwt_alg = row.protocolCode
        /\ Reported(a) =>
              /\ KeyExists("key")
              /\ \A k \in KeyIds :
                    KeyExists(k) =>
                       /\ algorithm(KeyOf(k)) = row.name
                       /\ KeyOf(k).algorithm_info.jwt_alg = row.protocolCode

C1_Witness ==
    /\ Reported("RsaSignPkcs12048Sha256")
    /\ KeyExists("key")
    /\ algorithm(KeyOf("key")) = "RSA-PKCS1-SHA256"
    /\ KeyExists("clone")
    /\ algorithm(KeyOf("clone")) = "RSA-PKCS1-SHA256"

\* C2: for every identifier outside the supported table the lookup returns None,
\* and a construction whose metadata fetch reports it fails with
\* UnsupportedAlgorithm carrying exactly that identifier: no key object exists
\* and no sign request is dispatched.
C2_UnsupportedRejected ==
    \A a \in CryptoKeyVersionAlgorithm \ TableIds :
        /\ get_algorithm_info(a).tag = "None"
        /\ Reported(a) =>
              /\ newCall.result.tag = "Err"
              /\ newCall.result.error.kind = "UnsupportedAlgorithm"
              /\ newCall.result.error.algorithm = a
              /\ \A k \in KeyIds : ~KeyExists(k)
              /\ signRequests = 0
              /\ \A c \in CallIds : calls[c].pc = "idle"

C2_Witness ==
    /\ Reported("KemXwing")
    /\ newCall.result.tag = "Err"
    /\ newCall.result.error.kind = "UnsupportedAlgorithm"
    /\ newCall.result.error.algorithm = "KemXwing"

\* C3: every sign call sends the resource identifier the key was constructed
\* with and the caller's input, unchanged, and when the collaborator answers
\* with a signature the call returns exactly those bytes, the empty input
\* included.
C3_SignPassThrough ==
    \A c \in CallIds :
        calls[c].pc # "idle" =>
            /\ calls[c].request.name = newCall.resource_name
            /\ calls[c].request.data = calls[c].input
            /\ (calls[c].pc = "done" /\ calls[c].response.tag = "Ok") =>
                  /\ calls[c].result.tag = "Ok"
                  /\ calls[c].result.value = calls[c].response.value.signature

C3_Witness ==
    \E c, d \in CallIds :
        /\ calls[c].pc = "done"
        /\ calls[c].input = << >>
        /\ calls[c].request.data = << >>
        /\ calls[c].response.tag = "Ok"
        /\ calls[c].result.tag = "Ok"
        /\ calls[c].result.value = <<115, 105, 103, 110, 101, 100, 32, 100, 97, 116, 97>>
        /\ calls[d].pc = "done"
        /\ calls[d].input = <<100, 97, 116, 97>>
        /\ calls[d].result.tag = "Ok"
        /\ calls[d].result.value = << >>

\* C4: once the key exists, no step changes it or its clone, exactly one
\* metadata fetch and one catalog lookup have been made and no step makes
\* another, whatever the backend would report now; the clone answers
\* algorithm() like the key.
C4_ResolvedOnce ==
    [][KeyExists("key") =>
          /\ newCall' = newCall
          /\ metaFetches = 1 /\ metaFetches' = 1
          /\ lookups = 1 /\ lookups' = 1
          /\ cloned.tag = "Some" => cloned' = cloned
          /\ cloned'.tag = "Some" =>
                algorithm(cloned'.value) = algorithm(newCall.result.value)]_vars

C4_Witness ==
    /\ Reported("EcSignP256Sha256")
    /\ algorithm(KeyOf("key")) = "ECDSA-P256"
    /\ metaFetches = 1
    /\ lookups = 1
    /\ \E c, d \in CallIds :
          /\ calls[c].pc = "done" /\ calls[c].result.tag = "Ok"
          /\ calls[d].pc = "done" /\ calls[d].result.tag = "Err"

\* C7: a construction makes exactly one metadata fetch, for the resource it was
\* given; a failed fetch gives GetCryptoKey wrapping the collaborator's error
\* without any catalog lookup; a key exists exactly when the fetch succeeded and
\* the lookup found a descriptor, and every key holds a descriptor of the table.
C7_ConstructionAllOrNothing ==
    /\ metaFetches = IF newCall.pc = "idle" THEN 0 ELSE 1
    /\ newCall.pc # "idle" => newCall.request.name = newCall.resource_name
    /\ (newCall.pc = "done" /\ newCall.response.tag = "Err") =>
          /\ newCall.result.tag = "Err"
          /\ newCall.result.error.kind = "GetCryptoKey"
          /\ newCall.result.error.source = newCall.response.error
          /\ lookups = 0
    /\ KeyExists("key") <=> \E a \in TableIds : Reported(a)
    /\ newCall.pc = "done" => newCall.result.tag \in {"Ok", "Err"}
    /\ \A k \in KeyIds :
          KeyExists(k) =>
             /\ KeyExists("key")
             /\ KeyOf(k).algorithm_info \in TableDescriptors
             /\ KeyOf(k).resource_name = newCall.resource_name
             /\ lookups = 1

C7_Witness ==
    /\ newCall.pc = "done"
    /\ newCall.response.tag = "Err"
    /\ newCall.response.error = "Unavailable"
    /\ newCall.result.tag = "Err"
    /\ newCall.result.error.kind = "GetCryptoKey"
    /\ newCall.result.error.source = "Unavailable"
    /\ metaFetches = 1
    /\ lookups = 0

\* C9: in every interleaving each sign call has dispatched exactly one request
\* (cancelled calls included, identical requests included), each finished call
\* holds the outcome of its own response (the signature, or AsymmetricSign
\* wrapping that response's error), a step of one call leaves every other
\* call's request and outcome alone, and no sign step changes the key or its
\* clone.
C9_SignCallsIndependent ==
    [][/\ signRequests' = Cardinality({c \in CallIds : calls'[c].pc # "idle"})
       /\ \A c \in CallIds :
             calls'[c].pc = "done" =>
                IF calls'[c].response.tag = "Err"
                THEN /\ calls'[c].result.tag = "Err"
                     /\ calls'[c].result.error.kind = "AsymmetricSign"
                     /\ calls'[c].result.error.source = calls'[c].response.error
                ELSE /\ calls'[c].response.tag = "Ok"
                     /\ calls'[c].result.tag = "Ok"
                     /\ calls'[c].result.value = calls'[c].response.value.signature
       /\ \A c \in CallIds :
             /\ calls[c].pc \in {"done", "cancelled"} => calls'[c] = calls[c]
             /\ calls[c].pc = "pending" =>
                   /\ calls'[c].request = calls[c].request
                   /\ calls'[c].input = calls[c].input
                   /\ calls'[c].self = calls[c].self
       /\ Cardinality({c \in CallIds : calls'[c] # calls[c]}) <= 1
       /\ calls' # calls => (newCall' = newCall /\ cloned' = cloned)]_vars

C9_Witness ==
    \E c, d \in CallIds :
        /\ c # d
        /\ calls[c].request = calls[d].request
        /\ calls[c].pc = "done"
        /\ calls[c].result.tag = "Err"
        /\ calls[c].result.error.kind = "AsymmetricSign"
        /\ calls[c].result.error.source = "PermissionDenied"
        /\ calls[d].pc = "done"
        /\ calls[d].result.tag = "Ok"
        /\ signRequests = 2

\* C10: no identifier the backend can report is classified by the wildcard arm
\* of the match: each one meets an arm written for it.
C10_NoWildcardClassification ==
    \A a \in CryptoKeyVersionAlgorithm : Reported(a) => matched_arm(a) # WildcardArm

----------------------------------------------------------------------------
(* Claims about the secret source, checked under SpecSecret *)

\* the call has ended on a response that carries a payload
HasPayload(c) ==
    /\ secretCalls[c].pc = "done"
    /\ secretCalls[c].response.tag = "Ok"
    /\ secretCalls[c].response.value.payload.tag = "Some"

\* the call has ended on a response that carries no payload
LacksPayload(c) ==
    /\ secretCalls[c].pc = "done"
    /\ secretCalls[c].response.tag = "Ok"
    /\ secretCalls[c].response.value.payload.tag = "None"

PayloadOf(c) == secretCalls[c].response.value.payload.value.data

IsError(result, kind) == result.tag = "Err" /\ result.error.kind = kind

\* C5: a successful response without a payload gives MissingPayload and decode
\* is not run for it; MissingPayload is given for nothing else, in particular
\* not for a failed fetch; a response with a payload, empty data included, is
\* decoded.
C5_MissingPayloadDistinct ==
    /\ \A c \in SecretCallIds :
          secretCalls[c].pc = "done" =>
             (IsError(secretCalls[c].result, "MissingPayload") <=> LacksPayload(c))
    /\ \A c \in SecretCallIds :
          (HasPayload(c) /\ PayloadOf(c) = << >>) =>
              secretCalls[c].result = Ok(<< >>)
    /\ decodes = Cardinality({c \in SecretCallIds : HasPayload(c)})

C5_Witness ==
    \E c, d \in SecretCallIds :
        /\ LacksPayload(c)
        /\ IsError(secretCalls[c].result, "MissingPayload")
        /\ HasPayload(d)
        /\ PayloadOf(d) = << >>
        /\ secretCalls[d].result.tag = "Ok"
        /\ decodes = 1

\* C6: when the fetch succeeds with a payload that decode rejects, the result is
\* Decode wrapping decode's own error; AccessSecret is the result exactly when
\* the fetch itself failed, and wraps that failure; when decode accepts the
\* payload the result is decode's output.
C6_DecodeFailureIsolated ==
    \A c \in SecretCallIds :
        secretCalls[c].pc = "done" =>
            /\ IsError(secretCalls[c].result, "AccessSecret")
                  <=> secretCalls[c].response.tag = "Err"
            /\ secretCalls[c].response.tag = "Err" =>
                  secretCalls[c].result.error.source = secretCalls[c].response.error
            /\ HasPayload(c) =>
                  IF decode(PayloadOf(c)).tag = "Err"
                  THEN /\ IsError(secretCalls[c].result, "Decode")
                       /\ secretCalls[c].result.error.source = decode(PayloadOf(c)).error
                  ELSE /\ secretCalls[c].result.tag = "Ok"
                       /\ secretCalls[c].result.value = decode(PayloadOf(c)).value

C6_Witness ==
    \E c, d \in SecretCallIds :
        /\ HasPayload(c)
        /\ PayloadOf(c) = <<97, 195>>
        /\ IsError(secretCalls[c].result, "Decode")
        /\ secretCalls[c].result.error.source = [kind |-> "Utf8Error", valid_up_to |-> 1]
        /\ HasPayload(d)
        /\ PayloadOf(d) = <<195, 169>>
        /\ secretCalls[d].result = Ok(<<233>>)

\* C8: after N calls of get_secret exactly N fetches have been dispatched, each
\* for the source's resource, decode has run once per payload received, and each
\* finished call holds the outcome of its own response, whatever earlier calls
\* returned.
C8_NoCachingNoRetry ==
    /\ secretFetches = Cardinality(SecretStarted)
    /\ decodes = Cardinality({c \in SecretCallIds : HasPayload(c)})
    /\ \A c \in SecretCallIds :
          /\ secretCalls[c].pc # "idle" =>
                secretCalls[c].request.name = SecretManagerSource.resource_name
          /\ secretCalls[c].pc = "done" =>
                /\ secretCalls[c].response.tag \in {"Ok", "Err"}
                /\ secretCalls[c].result = get_secret_result(secretCalls[c].response).result

C8_Witness ==
    /\ secretCalls[1].pc = "done"
    /\ secretCalls[1].result = Ok(<<97>>)
    /\ secretCalls[2].pc = "done"
    /\ IsError(secretCalls[2].result, "AccessSecret")
    /\ secretFetches = 2
    /\ decodes = 1

====
